---- MODULE Spec2Model ----
(***************************************************************************)
(* KMMS filament path, virtual endstop (trigger dispatcher) and the        *)
(* _load_to move orchestration of extras/kmms.py, with the path queries    *)
(* of extras/kmms_path.py and the actuator coordination of                 *)
(* extras/kmms_extruder.py.                                                *)
(*                                                                         *)
(* The reactor is cooperative: the orchestrator is one greenlet, and       *)
(* notifications, timers and deferred callbacks run only while it is       *)
(* suspended (flush, dwell, drip move, wait, script execution) or idle.    *)
(***************************************************************************)
EXTENDS Integers, Sequences, FiniteSets, TLC

\* ---------------------------------------------------------------- bounds
MaxCalls == 2   \* _load_to calls explored in one behaviour
NumMcu == 2     \* hardware synchronization contexts (one per mcu) of the printer
MaxMcu == 3     \* most contexts for which stop() is explored on its own

\* ------------------------------------------------------- flags (bitmask)
RECURSIVE BitAnd(_, _)
BitAnd(a, b) ==
    IF a = 0 \/ b = 0 THEN 0
    ELSE (a % 2) * (b % 2) + 2 * BitAnd(a \div 2, b \div 2)

RECURSIVE BitOr(_, _)
BitOr(a, b) ==
    IF a = 0 THEN b
    ELSE IF b = 0 THEN a
    ELSE (IF a % 2 = 1 \/ b % 2 = 1 THEN 1 ELSE 0) + 2 * BitOr(a \div 2, b \div 2)

NONE == 0
SENSOR == 1
EXTRUDER == 2
SYNCING_EXTRUDER == 4
BACKPRESSURE == BitOr(8, SENSOR)
PATH == 16

\* ------------------------------------------------------------ devices
\* What a wrapped device exposes: the keys of its get_status() and the
\* methods KmmsPathItem probes with hasattr.
StatusKeys(kind) ==
    CASE kind = "switch" -> {"filament_detected", "enabled", "runout_pause"}
      [] kind = "backpressure" ->
            {"filament_detected", "enabled", "runout_pause", "min", "target",
             "last_value", "pressure", "temperature"}
      [] kind = "extruder" -> {"can_extrude"}
      [] OTHER -> {}

\* Methods of the raw device objects.  KmmsExtruder defines no get_object:
\* only KmmsPathItem does.  A KmmsPath ("path") defines no get_status; "subpath"
\* is any other object that offers get_path_items next to get_name and get_status.
Attrs(kind) ==
    CASE kind = "extruder" ->
            {"sync_to_extruder", "activate", "move", "get_name", "get_status",
             "get_trapq", "check_move", "find_past_position"}
      [] kind = "path" ->
            {"get_name", "add_object", "lookup_object", "get_path_items", "get_objects",
             "find_object", "find_path_position", "find_path_items", "find_path_next",
             "find_path_last"}
      [] kind = "subpath" -> {"get_name", "get_status", "get_path_items"}
      [] OTHER -> {"get_name", "get_status"}

\* KmmsPathItem.__init__: the flags derived from the device.
ItemFlags(kind) ==
    LET f1 == IF "filament_detected" \in StatusKeys(kind) THEN BitOr(NONE, SENSOR) ELSE NONE
        f2 == IF "pressure" \in StatusKeys(kind) THEN BitOr(f1, BACKPRESSURE) ELSE f1
        f3 == IF "move" \in Attrs(kind) THEN BitOr(f2, EXTRUDER) ELSE f2
        f4 == IF "sync_to_extruder" \in Attrs(kind) THEN BitOr(f3, SYNCING_EXTRUDER) ELSE f3
        f5 == IF "get_path_items" \in Attrs(kind) THEN BitOr(f4, PATH) ELSE f4
    IN  f5

KmmsPathItem(name, kind) == [name |-> name, kind |-> kind, flags |-> ItemFlags(kind)]

\* A test that is satisfied by any shared bit.
has_flag_any(item, flag) == BitAnd(flag, item.flags) # 0

has_flag(item, flag) == BitAnd(flag, item.flags) = flag

\* The configured paths explored (the active path 'spool_0').
PathA == << KmmsPathItem("entry", "switch"), KmmsPathItem("drive", "extruder"),
            KmmsPathItem("toolhead", "switch") >>
PathB == << KmmsPathItem("drive", "extruder"), KmmsPathItem("bp", "backpressure"),
            KmmsPathItem("toolhead", "switch"), KmmsPathItem("drive2", "extruder") >>
PathC == << KmmsPathItem("entry", "switch"), KmmsPathItem("drive", "extruder"),
            KmmsPathItem("drive2", "extruder") >>
PathD == << >>
PathE == << KmmsPathItem("entry", "switch"), KmmsPathItem("toolhead", "switch") >>
PathF == << KmmsPathItem("drive", "extruder"), KmmsPathItem("drive2", "extruder") >>
Paths == {PathA, PathB, PathC, PathD, PathE, PathF}

\* config.get_name() of the active path, and the _names a path of items p holds.
PathName == "kmms_path spool_0"
NamesOf(p) == {PathName} \cup {p[i].name : i \in 1..Len(p)}

\* The names of a path's SENSOR items.
SensorsOf(p) == {p[i].name : i \in {j \in 1..Len(p) : has_flag(p[j], SENSOR)}}

SensorNames == {"entry", "bp", "toolhead"}
ExtruderNames == {"drive", "drive2"}
\* Names a kmms:filament_insert notification may carry ("other" is in no path).
NotifyNames == SensorNames \cup {"other"}
Readings == {"present", "absent", "disabled"}

VARIABLES
    path,           \* KmmsPath._items of the active path
    nMcu,           \* len(KmmsVirtualEndstop._trsyncs)
    reading,        \* per sensor, as sampled by the call on entry: present / absent / disabled
    extruder,       \* toolhead.get_extruder(): name of the active queue owner
    motion_queue,   \* per actuator: extruder_stepper.motion_queue (leader name or "none")
    trapq,          \* per actuator: queue its stepper is bound to (a name or "none")
    compl,          \* every ReactorCompletion created by the endstop, by creation order
    waiting,        \* KmmsVirtualEndstop.waiting: [comp: index in compl, names]
    trsync,         \* TRUE while the trsyncs and the trdispatch are started
    pc,             \* position of _load_to
    stop_pos,       \* _load_to argument
    from_command,   \* _load_to argument
    drive,          \* drive_extruder name
    endstop_names,  \* names the call arms
    endstop_hit,    \* value returned by endstop.wait
    result,         \* how the last call ended: a return value or an error kind
    reported,       \* the command boundary reported a KmmsError as text
    trace,          \* what the current/last call did, in order
    changed,        \* the current/last call changed the active queue owner
    callNo,         \* number of _load_to calls started
    callbacks,      \* reactor callbacks registered by _load_to and not yet run
    timers,         \* reactor timers registered by _load_to and not yet fired
    reasons,        \* per-trsync results of the last stop()
    stop_reason,    \* value returned by the last stop()
    warned,         \* the call responded with the warning of line 190
    path_names,     \* KmmsPath._names of the active path
    query,          \* the path query last made, with its arguments
    answer,         \* what that query returned
    step_generators,\* actuators whose generate_steps is in toolhead.step_generators
    expired,        \* the deadline of the pending endstop.wait has been reached
    spool,          \* a KmmsSpool: its fields, its timers, its pending callbacks
    helper          \* a KmmsRunoutHelper: its fields and its event handlers

vars == << path, nMcu, reading, extruder, motion_queue, trapq, compl, waiting, trsync,
           pc, stop_pos, from_command, drive, endstop_names, endstop_hit, result,
           reported, trace, changed, callNo, callbacks, timers, reasons, stop_reason,
           warned, path_names, query, answer, step_generators, expired, spool, helper >>

\* ---------------------------------------------------------------- KmmsPath
\* Python's seq[start:stop] for 0-based start, stop >= 0 (stop clamped to the length).
Slice(seq, start, stop) ==
    LET hi == IF stop > Len(seq) THEN Len(seq) ELSE stop
    IN  IF start >= hi THEN << >> ELSE SubSeq(seq, start + 1, hi)

\* The device's get_status(), as far as the path reads it, for the readings rd.
get_status(rd, item) ==
    [filament_detected |-> (rd[item.name] = "present"),
     enabled |-> (rd[item.name] # "disabled")]

\* A reading that ignores the sensor's 'enabled' status.
filament_detected_raw(rd, item) ==
    IF get_status(rd, item).filament_detected THEN "true" ELSE "false"

\* KmmsPathItem.filament_detected: "true", "false" or "none" (Python's None).
filament_detected(rd, item) ==
    LET status == get_status(rd, item)
    IN  IF "enabled" \notin StatusKeys(item.kind) \/ status.enabled
        THEN (IF status.filament_detected THEN "true" ELSE "false")
        ELSE "none"

\* The loop of find_path_position from 0-based index i with the running result.
RECURSIVE ScanPosition(_, _, _)
ScanPosition(rd, i, best) ==
    IF i >= Len(path) THEN best
    ELSE LET item == path[i + 1]
             fd == IF has_flag(item, SENSOR) THEN filament_detected(rd, item) ELSE "none"
         IN  IF fd = "true" THEN ScanPosition(rd, i + 1, i)
             ELSE IF fd # "none" THEN best
             ELSE ScanPosition(rd, i + 1, best)

find_path_position(rd) == ScanPosition(rd, 0, -1)

\* [(start + i, obj) for i, obj in enumerate(items[start:stop]) if obj.has_flag(flag)]
find_path_items(flag, start, stop) ==
    LET part == Slice(path, start, stop)
        idx == SelectSeq([i \in 1..Len(part) |-> i], LAMBDA i: has_flag(part[i], flag))
    IN  [k \in 1..Len(idx) |-> [pos |-> start + idx[k] - 1, item |-> part[idx[k]]]]

\* [i.get_object() for i in items[start:stop] if i.has_flag(flag)]: the raw objects.
get_objects(flag, start, stop) ==
    LET found == find_path_items(flag, start, stop)
    IN  [k \in 1..Len(found) |-> [name |-> found[k].item.name, kind |-> found[k].item.kind]]

NoItem == [name |-> "none", kind |-> "none", flags |-> NONE]

\* reversed(range(stop, start)): the highest index first.
RECURSIVE ScanLast(_, _, _)
ScanLast(flag, i, stop) ==
    IF i < stop THEN [error |-> "none", pos |-> -1, item |-> NoItem]
    ELSE IF has_flag(path[i + 1], flag) THEN [error |-> "none", pos |-> i, item |-> path[i + 1]]
    ELSE ScanLast(flag, i - 1, stop)

\* A scan that does not check its range.
find_path_last_unchecked(flag, start, stop) == ScanLast(flag, start - 1, stop)

find_path_last(flag, start, stop) ==
    IF start < stop THEN [error |-> "ValueError", pos |-> -1, item |-> NoItem]
    ELSE ScanLast(flag, start - 1, stop)

\* find_object(obj): the position of the item wrapping the named object, or -1.
find_object(name) ==
    LET hits == {i \in 0..(Len(path) - 1) : path[i + 1].name = name}
    IN  IF hits = {} THEN -1 ELSE CHOOSE i \in hits : \A j \in hits : i <= j

\* ------------------------------------------------------------ KmmsExtruder
\* The actuator state an operation works on: the toolhead's extruder, every
\* stepper's motion_queue and trapq, the error raised (if any), and what the
\* operation did to the toolhead, in order (flush, configure, set_extruder, event).
ActState == [extruder |-> extruder, motion_queue |-> motion_queue, trapq |-> trapq,
             step_generators |-> step_generators, error |-> "none", did |-> << >>]

\* What printer.lookup_object(extruder_name) accepts as a leader: the printer's
\* own extruder and every KmmsExtruder.
ValidExtruders == ExtruderNames \cup {"extruder"}

\* _configure_extruder_stepper(trapq, pos, motion_queue): the stepper's position
\* is set together with its trapq; then generate_steps is registered for a
\* trapq, and removed for none - list.remove raises ValueError when it is absent.
configure_extruder_stepper(st, e, tq, mq) ==
    LET s1 == [st EXCEPT !.trapq[e] = tq, !.motion_queue[e] = mq,
                         !.did = Append(@, "configure")]
    IN  IF tq # "none" THEN [s1 EXCEPT !.step_generators = @ \cup {e}]
        ELSE IF e \in st.step_generators THEN [s1 EXCEPT !.step_generators = @ \ {e}]
        ELSE [s1 EXCEPT !.error = "ValueError"]

\* A sync_to_extruder that accepts the active actuator as a follower.
sync_to_extruder_unguarded(st, e, extruder_name) ==
    LET s1 == [st EXCEPT !.did = Append(@, "flush")] IN
    IF extruder_name = "" THEN configure_extruder_stepper(s1, e, "none", "none")
    ELSE IF extruder_name \notin ValidExtruders THEN [s1 EXCEPT !.error = "CommandError"]
    ELSE configure_extruder_stepper(s1, e, extruder_name, extruder_name)

\* A sync_to_extruder that tests for the active actuator only after it has
\* reconfigured the stepper.
sync_to_extruder_late(st, e, extruder_name) ==
    LET s1 == [st EXCEPT !.did = Append(@, "flush")]
        s2 == IF extruder_name = "" THEN configure_extruder_stepper(s1, e, "none", "none")
              ELSE IF extruder_name \notin ValidExtruders
                   THEN [s1 EXCEPT !.error = "CommandError"]
              ELSE configure_extruder_stepper(s1, e, extruder_name, extruder_name)
    IN  IF st.extruder = e THEN [s2 EXCEPT !.error = "CommandError"] ELSE s2

\* KmmsExtruder.sync_to_extruder(extruder_name) on actuator e ("" desyncs).
sync_to_extruder(st, e, extruder_name) ==
    LET s1 == [st EXCEPT !.did = Append(@, "flush")] IN
    IF st.extruder = e THEN [s1 EXCEPT !.error = "CommandError"]
    ELSE IF extruder_name = "" THEN configure_extruder_stepper(s1, e, "none", "none")
    ELSE IF extruder_name \notin ValidExtruders THEN [s1 EXCEPT !.error = "CommandError"]
    ELSE configure_extruder_stepper(s1, e, extruder_name, extruder_name)

\* The loop of Kmms._handle_activate_extruder over get_objects(...): each element
\* is a raw device object, on which the handler calls get_object().
RECURSIVE SyncPathExtruders(_, _, _)
SyncPathExtruders(st, objs, leader) ==
    IF objs = << >> THEN st
    ELSE IF "get_object" \notin Attrs(Head(objs).kind)
         THEN [st EXCEPT !.error = "AttributeError"]
    ELSE LET st2 == sync_to_extruder(st, Head(objs).name, leader)
         IN  IF st2.error # "none" THEN st2
             ELSE SyncPathExtruders(st2, Tail(objs), leader)

\* Kmms._handle_activate_extruder (the kmms:desync event it sends has no handler).
handle_activate_extruder(st) ==
    LET extruder_pos == find_object(st.extruder)
    IN  IF extruder_pos < 0 THEN st
        ELSE SyncPathExtruders(st, get_objects(EXTRUDER, 0, extruder_pos), st.extruder)

\* An activate without the "already active" test.
activate_again(st, e) ==
    LET s1 == [st EXCEPT !.did = Append(@, "flush")]
        s2 == configure_extruder_stepper(s1, e, e, "none")
        s3 == [s2 EXCEPT !.extruder = e, !.did = @ \o << "set_extruder", "event" >>]
    IN  handle_activate_extruder(s3)

\* KmmsExtruder.activate on actuator e, with the extruder:activate_extruder event.
activate(st, e) ==
    IF st.extruder = e THEN st
    ELSE LET s1 == [st EXCEPT !.did = Append(@, "flush")]
             s2 == configure_extruder_stepper(s1, e, e, "none")
             s3 == [s2 EXCEPT !.extruder = e, !.did = @ \o << "set_extruder", "event" >>]
         IN  handle_activate_extruder(s3)

\* Kmms.activate_extruder(extruder): extruder "" stands for None (the path's last one).
\* run_script passes the command's exception on to the caller.
activate_extruder(st, name) ==
    IF name # "" THEN activate(st, name)
    ELSE LET objs == get_objects(EXTRUDER, 0, Len(path))
         IN  IF objs = << >> THEN [st EXCEPT !.error = "ConfigError"]
             ELSE activate(st, objs[Len(objs)].name)

\* ------------------------------------------------------ KmmsVirtualEndstop
REASON_ENDSTOP_HIT == 1
REASON_COMMS_TIMEOUT == 2
REASON_HOST_REQUEST == 3
REASON_PAST_END_TIME == 4
Reasons == {REASON_ENDSTOP_HIT, REASON_COMMS_TIMEOUT, REASON_HOST_REQUEST,
            REASON_PAST_END_TIME}

\* ReactorCompletion.test()
test(c) == compl[c] # "unresolved"

\* A handler without the "not completion.test()" test: a later notification
\* overwrites the value of an arm that is already resolved.
endstop_handle_filament_insert_overwrite(full_name) ==
    IF full_name \in waiting.names
    THEN [compl EXCEPT ![waiting.comp] = full_name]
    ELSE compl

\* _handle_filament_insert(eventtime, full_name): the completions afterwards.
endstop_handle_filament_insert(full_name) ==
    IF full_name \in waiting.names /\ ~test(waiting.comp)
    THEN [compl EXCEPT ![waiting.comp] = full_name]
    ELSE compl

\* A start() that forgets the previous arm: its completion is left as it is.
start_compl_forget == Append(compl, "unresolved")

\* start(), up to the loop over the trsyncs: the new completion becomes the
\* current arm and the previous one is completed with None if still unresolved.
start_compl ==
    LET prev == waiting.comp
        grown == Append(compl, "unresolved")
    IN  IF ~test(prev) THEN [grown EXCEPT ![prev] = "None"] ELSE grown

\* A start() that arms no name at all.
start_waiting_nothing(names) == [comp |-> Len(compl) + 1, names |-> {}]

start_waiting(names) == [comp |-> Len(compl) + 1, names |-> names]

\* A stop() that completes the arm with None whatever its value was.
stop_compl_always == [compl EXCEPT ![waiting.comp] = "None"]

\* stop(): the completions after its first statement.
stop_compl ==
    IF ~test(waiting.comp) THEN [compl EXCEPT ![waiting.comp] = "None"] ELSE compl

\* any([r == reason for r in res])
RECURSIVE AnyEq(_, _)
AnyEq(res, reason) ==
    IF res = << >> THEN FALSE
    ELSE IF Head(res) = reason THEN TRUE ELSE AnyEq(Tail(res), reason)

\* max(res)
RECURSIVE MaxOf(_)
MaxOf(res) ==
    IF Len(res) = 1 THEN res[1]
    ELSE LET m == MaxOf(Tail(res)) IN IF Head(res) > m THEN Head(res) ELSE m

\* A stop() that gives the endstop hit priority over the communication timeout.
stop_result_hit_first(res) ==
    IF AnyEq(res, REASON_ENDSTOP_HIT) THEN REASON_ENDSTOP_HIT
    ELSE IF AnyEq(res, REASON_COMMS_TIMEOUT) THEN REASON_COMMS_TIMEOUT
    ELSE MaxOf(res)

\* stop(): the reason returned for the per-trsync results res.
stop_result(res) ==
    IF AnyEq(res, REASON_COMMS_TIMEOUT) THEN REASON_COMMS_TIMEOUT
    ELSE IF AnyEq(res, REASON_ENDSTOP_HIT) THEN REASON_ENDSTOP_HIT
    ELSE MaxOf(res)


\* ------------------------------------------------------------------ Kmms
\* "fmt" % args with nspec conversion specifiers and nargs arguments.
Format(nspec, nargs) == IF nspec = nargs THEN "ok" ELSE "TypeError"

\* A test that lets a call with pos = stop_pos go on.
already_satisfied_strict(pos, sp) == pos > sp

\* line 174: if pos >= stop_pos
already_satisfied(pos, sp) == pos >= sp

\* A test that never finds the path empty (the call goes on with the warning).
seems_empty_never(pos, drive_extruder_pos) == FALSE

\* A test that finds the path empty whenever no sensor detects filament.
seems_empty_always(pos, drive_extruder_pos) == pos < 0

\* lines 186-187: no sensor detects filament and a sensor precedes the drive extruder.
seems_empty(pos, drive_extruder_pos) ==
    pos < 0 /\ find_path_items(SENSOR, 0, drive_extruder_pos) # << >>

\* A test that takes a reading of None (sensor disabled) for filament at the toolhead.
at_toolhead_unless_absent(rd, toolhead_sensor) ==
    filament_detected(rd, toolhead_sensor) # "false"

\* line 206: if toolhead_sensor.filament_detected(eventtime) - None is falsy.
at_toolhead(rd, toolhead_sensor) == filament_detected(rd, toolhead_sensor) = "true"

\* A selection that finds no backpressure sensor.
secondary_endstops_none(drive_extruder_pos, sp) == << >>

\* line 201: path.find_path_items(path.BACKPRESSURE, drive_extruder_pos, stop_pos)
secondary_endstops(drive_extruder_pos, sp) ==
    find_path_items(BACKPRESSURE, drive_extruder_pos, sp)

\* Kmms._load_to up to the first statement that touches hardware: what the call
\* does with the path as it is now.  kind is "raise", "return" or "go".
load_to_checks(sp, rd) ==
    IF Len(path) < 1
    THEN [kind |-> "raise", value |-> "CommandError", tag |-> "no_path",
          drive |-> "none", names |-> {}, warned |-> FALSE]
    ELSE
    LET pos == find_path_position(rd) IN
    IF already_satisfied(pos, sp)
    THEN [kind |-> "return", value |-> "False", tag |-> "satisfied",
          drive |-> "none", names |-> {}, warned |-> FALSE]
    ELSE
    LET extruders == find_path_items(EXTRUDER, 0, sp) IN
    IF Len(extruders) < 1
    THEN \* config_error("... '%s' ... %d" % path.get_name(), stop_pos)
         [kind |-> "raise",
          value |-> IF Format(2, 1) = "ok" THEN "ConfigError" ELSE Format(2, 1),
          tag |-> "no_extruder", drive |-> "none", names |-> {}, warned |-> FALSE]
    ELSE
    LET drive_extruder == extruders[Len(extruders)] IN
    IF seems_empty(pos, drive_extruder.pos)
    THEN [kind |-> "raise", value |-> "KmmsError", tag |-> "empty",
          drive |-> "none", names |-> {}, warned |-> FALSE]
    ELSE
    LET toolhead_sensor == find_path_last(SENSOR, sp, 0) IN
    IF toolhead_sensor.pos < 0
    THEN [kind |-> "raise", value |-> "KmmsError", tag |-> "no_sensor",
          drive |-> "none", names |-> {}, warned |-> pos < 0]
    ELSE
    LET backpressure == secondary_endstops(drive_extruder.pos, sp)
        endstops == {toolhead_sensor.item.name}
                        \cup {backpressure[k].item.name : k \in 1..Len(backpressure)}
    IN  IF at_toolhead(rd, toolhead_sensor.item)
        THEN [kind |-> "return", value |-> "True", tag |-> "already",
              drive |-> "none", names |-> {}, warned |-> pos < 0]
        ELSE [kind |-> "go", value |-> "none", tag |-> "moving",
              drive |-> drive_extruder.item.name, names |-> endstops,
              warned |-> pos < 0]

\* A pop() that reaches the path's own list of items.
popped_in_place(items, found) ==
    IF found = << >> THEN items ELSE SubSeq(items, 1, Len(items) - 1)

\* The path's _items after found.pop(), found being what find_path_items or
\* get_objects returned: a list the comprehension built, never _items itself.
popped(items, found) == items

\* A command that catches and reports every error of the call.
command_reports_any(via_command, err) == via_command

\* cmd_KMMS_PRELOAD: a KmmsError is caught and reported as text; any other
\* error leaves the command.  A direct caller of _load_to catches nothing.
command_reports(via_command, err) == via_command /\ err = "KmmsError"

\* KmmsSpool.__init__: the state after construction.  timers are the timeout
\* timers registered with the reactor, armed those of them that have not fired;
\* stops are the lookahead callbacks that will call stop(); at is where a running
\* stop() is suspended in a dwell.
NewSpool ==
    [last_value |-> 0, last_cycle_time |-> "default", load_pin |-> 0, unload_pin |-> 0,
     status |-> "Idle", resend_timer |-> FALSE, last_start |-> FALSE,
     completions |-> << >>, trigger_completion |-> 0, timeout_timer |-> 0,
     timers |-> {}, armed |-> {}, stops |-> 0, at |-> "none"]

\* KmmsRunoutHelper.__init__: the state after construction.  min_event_systime
\* is NEVER, a time still ahead ("later") or a time that has passed ("passed");
\* scheduled holds the handlers registered with the reactor and not yet
\* started, running those started and not yet finished.  last_reported is the
\* value of the latest note_filament_present call, last_note what that call
\* did, finished how the latest handler ended.
NewHelper ==
    [filament_present |-> FALSE, min_event_systime |-> "NEVER",
     sensor_enabled |-> TRUE, run_always |-> FALSE, runout_pause |-> TRUE,
     scheduled |-> << >>, running |-> << >>, ready |-> FALSE,
     last_reported |-> FALSE, last_note |-> "none", finished |-> "none"]

Init ==
    /\ path \in Paths
    /\ nMcu = NumMcu
    /\ reading = [n \in SensorsOf(path) |-> "absent"]
    /\ extruder = "extruder"
    /\ motion_queue = [e \in ExtruderNames |-> "none"]
    /\ trapq = [e \in ExtruderNames |-> "none"]
    /\ compl = << "unresolved" >>
    /\ waiting = [comp |-> 1, names |-> {}]
    /\ trsync = FALSE
    /\ pc = "idle"
    /\ stop_pos = 0
    /\ from_command = FALSE
    /\ drive = "none"
    /\ endstop_names = {}
    /\ endstop_hit = "none"
    /\ result = "none"
    /\ reported = FALSE
    /\ trace = << >>
    /\ changed = FALSE
    /\ callNo = 0
    /\ callbacks = 0
    /\ timers = 0
    /\ reasons = << >>
    /\ stop_reason = 0
    /\ warned = FALSE
    /\ path_names = NamesOf(path)
    /\ query = << >>
    /\ answer = << >>
    /\ step_generators = ExtruderNames
    /\ expired = FALSE
    /\ spool = NewSpool
    /\ helper = NewHelper

actVars == << extruder, motion_queue, trapq, step_generators >>
endVars == << compl, waiting, trsync, reasons, stop_reason >>
argVars == << stop_pos, from_command, drive, endstop_names >>
fixVars == << nMcu, reading, warned, path_names, query, answer, spool, helper >>
envVars == << fixVars, expired >>
cfgVars == << path, envVars >>

\* The actuator state st written back.
SetActuators(st) ==
    /\ extruder' = st.extruder
    /\ motion_queue' = st.motion_queue
    /\ trapq' = st.trapq
    /\ step_generators' = st.step_generators

\* The call begins: lines 166-211, which never suspend; rd is what the sensors
\* read at that time.
Enter(sp, rd, via_command) ==
    LET c == load_to_checks(sp, rd) IN
    /\ pc = "idle"
    /\ callNo < MaxCalls
    /\ callNo' = callNo + 1
    /\ stop_pos' = sp
    /\ from_command' = via_command
    /\ drive' = c.drive
    /\ endstop_names' = c.names
    /\ endstop_hit' = "none"
    /\ changed' = FALSE
    /\ trace' = << c.tag >>
    /\ result' = c.value
    /\ reported' = (c.kind = "raise" /\ command_reports(via_command, c.value))
    /\ pc' = IF c.kind = "go" THEN "moving" ELSE "done"
    /\ reading' = rd
    /\ warned' = c.warned
    /\ path' = IF c.tag \in {"no_path", "satisfied", "no_extruder"} THEN path
               ELSE popped(path, find_path_items(EXTRUDER, 0, sp))
    /\ UNCHANGED << nMcu, path_names, query, answer, expired, spool, helper, actVars, endVars, callbacks, timers >>

\* _load_to(stop_pos) called directly.
load_to ==
    \E sp \in 0..Len(path), rd \in [SensorsOf(path) -> Readings] : Enter(sp, rd, FALSE)

\* cmd_KMMS_PRELOAD: _load_to(position of the path's last extruder, from_command=True).
cmd_KMMS_PRELOAD ==
    \E rd \in [SensorsOf(path) -> Readings] :
        Enter(find_path_last(EXTRUDER, Len(path), 0).pos, rd, TRUE)

\* line 210: the checks passed and the move begins; the sensors are read no more.
Moving ==
    /\ pc = "moving"
    /\ pc' = "activate"
    /\ reading' = [n \in SensorsOf(path) |-> "absent"]
    /\ warned' = FALSE
    /\ UNCHANGED << path, nMcu, path_names, query, answer, expired, spool, helper, actVars, endVars, argVars, endstop_hit, result, reported,
                    trace, changed, callNo, callbacks, timers >>

\* An except clause that re-raises without registering the restoring callback.
ExceptHandler_bare(tr, err) ==
    /\ callbacks' = callbacks
    /\ trace' = Append(tr, "raise")
    /\ result' = err
    /\ reported' = command_reports(from_command, err)
    /\ pc' = "done"

\* An except clause that restores inline, like line 250, instead of registering
\* the callback.
ExceptHandler_inline(tr, err) ==
    /\ callbacks' = callbacks
    /\ trace' = tr \o << "raise", "restore_inline" >>
    /\ result' = err
    /\ reported' = command_reports(from_command, err)
    /\ pc' = "done"

\* except Exception: register the restoring callback, re-raise; finally; the call is over.
ExceptHandler(tr, err) ==
    /\ callbacks' = callbacks + 1
    /\ trace' = tr \o << "raise", "defer" >>
    /\ result' = err
    /\ reported' = command_reports(from_command, err)
    /\ pc' = "done"

\* A step that only calls a collaborator (flush, dwell, position read, drip move):
\* it returns, or raises.
Collaborator(at, tag, next) ==
    /\ pc = at
    /\ \/ /\ pc' = next
          /\ trace' = Append(trace, tag)
          /\ UNCHANGED << result, reported, callbacks >>
       \/ ExceptHandler(Append(trace, tag), "CommandError")
    /\ UNCHANGED << cfgVars, actVars, endVars, argVars, endstop_hit, changed, callNo, timers >>

\* line 215: self.activate_extruder(drive_extruder, from_command=from_command)
ActivateDrive ==
    /\ pc = "activate"
    /\ \/ LET st == activate_extruder(ActState, drive) IN
          /\ SetActuators(st)
          /\ changed' = (st.extruder # extruder)
          /\ IF st.error = "none"
             THEN /\ pc' = "flush1"
                  /\ trace' = Append(trace, "activate")
                  /\ UNCHANGED << result, reported, callbacks >>
             ELSE ExceptHandler(Append(trace, "activate"), st.error)
       \/ /\ ExceptHandler(Append(trace, "activate"), "CommandError")
          /\ UNCHANGED << actVars, changed >>
    /\ UNCHANGED << cfgVars, endVars, argVars, endstop_hit, callNo, timers >>

Flush1 == Collaborator("flush1", "flush", "start")

\* endstop.start(...), lines 53-60: the new arm replaces the previous one.
Start ==
    /\ pc = "start"
    /\ compl' = start_compl
    /\ waiting' = start_waiting(endstop_names)
    /\ pc' = "start_trsync"
    /\ trace' = Append(trace, "start")
    /\ UNCHANGED << cfgVars, actVars, argVars, trsync, reasons, stop_reason, endstop_hit,
                    result, reported, changed, callNo, callbacks, timers >>

\* endstop.start(...), lines 62-70: the trsyncs and the trdispatch are started.
StartTrsync ==
    /\ pc = "start_trsync"
    /\ \/ /\ trsync' = TRUE
          /\ pc' = "getpos1"
          /\ UNCHANGED << trace, result, reported, callbacks >>
       \/ /\ ExceptHandler(trace, "CommandError")
          /\ UNCHANGED trsync
    /\ UNCHANGED << cfgVars, actVars, argVars, compl, waiting, reasons, stop_reason,
                    endstop_hit, changed, callNo, timers >>

GetPos1 == Collaborator("getpos1", "getpos", "flush2")
Flush2 == Collaborator("flush2", "flush", "dwell")
Dwell == Collaborator("dwell", "dwell", "drip")

\* line 231: the timer is registered, then the drip move begins.
Drip ==
    /\ pc = "drip"
    /\ timers' = timers + 1
    /\ trace' = trace \o << "timer", "drip" >>
    /\ pc' = "dripping"
    /\ UNCHANGED << cfgVars, actVars, endVars, argVars, endstop_hit, result, reported,
                    changed, callNo, callbacks >>

\* toolhead.drip_move returns (the move ended or was cut short), or raises.
Dripping == Collaborator("dripping", "drip_end", "wait")

\* A wait that reports no result whatever the completion holds.
completion_wait_unnamed(comp) == "None"

\* ReactorCompletion.wait(waketime): the completion's value, or None when the
\* waiter is resumed at the deadline with the completion unresolved.
completion_wait(comp) == IF test(comp) THEN compl[comp] ELSE "None"

\* endstop.wait: the caller is resumed when the completion is resolved or the
\* deadline is reached.
Wait ==
    /\ pc = "wait"
    /\ test(waiting.comp) \/ expired
    /\ \/ /\ endstop_hit' = completion_wait(waiting.comp)
          /\ pc' = "getpos2"
          /\ trace' = Append(trace, "wait")
          /\ UNCHANGED << result, reported, callbacks >>
       \/ /\ ExceptHandler(Append(trace, "wait"), "CommandError")
          /\ UNCHANGED endstop_hit
    /\ expired' = FALSE
    /\ UNCHANGED << path, fixVars, actVars, endVars, argVars, changed, callNo, timers >>

\* The reactor's clock reaches the deadline of the pending wait.
Deadline ==
    /\ pc = "wait"
    /\ ~expired
    /\ expired' = TRUE
    /\ UNCHANGED << path, fixVars, actVars, endVars, argVars, pc, endstop_hit, result,
                    reported, trace, changed, callNo, callbacks, timers >>

GetPos2 == Collaborator("getpos2", "getpos", "stop")

\* endstop.stop(): resolves the arm, stops the trdispatch and every trsync.
Stop ==
    /\ pc = "stop"
    /\ compl' = stop_compl
    /\ \/ \E res \in [1..nMcu -> Reasons] :
            /\ reasons' = res
            /\ stop_reason' = stop_result(res)
            /\ trsync' = FALSE
            /\ pc' = "stopped"
            /\ trace' = Append(trace, "stop")
            /\ UNCHANGED << result, reported, callbacks >>
       \/ /\ ExceptHandler(Append(trace, "stop"), "CommandError")
          /\ UNCHANGED << trsync, reasons, stop_reason >>
    /\ UNCHANGED << cfgVars, actVars, argVars, waiting, endstop_hit, changed, callNo, timers >>

\* line 240: stop() has returned and _load_to drops the value.
Stopped ==
    /\ pc = "stopped"
    /\ pc' = "flush3"
    /\ reasons' = << >>
    /\ stop_reason' = 0
    /\ UNCHANGED << cfgVars, actVars, argVars, compl, waiting, trsync, endstop_hit, result,
                    reported, trace, changed, callNo, callbacks, timers >>

Flush3 == Collaborator("flush3", "flush", "restore")

\* line 250: self.activate_extruder(from_command=from_command), then return True.
Restore ==
    /\ pc = "restore"
    /\ \/ LET st == activate_extruder(ActState, "") IN
          /\ SetActuators(st)
          /\ IF st.error = "none"
             THEN /\ pc' = "done"
                  /\ result' = "True"
                  /\ trace' = trace \o << "restore_inline", "return" >>
                  /\ UNCHANGED << reported, callbacks >>
             ELSE ExceptHandler(Append(trace, "restore_inline"), st.error)
       \/ /\ ExceptHandler(Append(trace, "restore_inline"), "CommandError")
          /\ UNCHANGED actVars
    /\ path' = popped(path, get_objects(EXTRUDER, 0, Len(path)))
    /\ UNCHANGED << envVars, endVars, argVars, endstop_hit, changed, callNo, timers >>

\* The caller has the call's outcome and control goes back to the reactor; the
\* record of the call (result, reported, trace, the call's locals) is dropped.
Return ==
    /\ pc = "done"
    /\ pc' = "idle"
    /\ stop_pos' = 0
    /\ from_command' = FALSE
    /\ drive' = "none"
    /\ endstop_names' = {}
    /\ endstop_hit' = "none"
    /\ result' = "none"
    /\ reported' = FALSE
    /\ trace' = << >>
    /\ reading' = [n \in SensorsOf(path) |-> "absent"]
    /\ warned' = FALSE
    /\ UNCHANGED << path, nMcu, path_names, query, answer, expired, spool, helper, actVars, endVars, changed, callNo, callbacks, timers >>

\* Where the orchestrator is suspended (or not running) and the reactor runs others.
Suspended == {"idle", "activate", "flush1", "flush2", "dwell", "dripping", "wait",
              "flush3", "restore"}

\* A kmms:filament_insert event for full_name reaches
\* KmmsVirtualEndstop._handle_filament_insert (Kmms's own handlers of it do nothing).
HandleInsert(full_name) ==
    /\ pc \in Suspended
    /\ compl' = endstop_handle_filament_insert(full_name)
    /\ UNCHANGED << cfgVars, actVars, argVars, waiting, trsync, reasons, stop_reason, pc,
                    endstop_hit, result, reported, trace, changed, callNo, callbacks,
                    timers >>

FilamentInsert == \E full_name \in NotifyNames : HandleInsert(full_name)

\* The timer of line 231 fires: self.endstop.waiting[0].complete('TEST').
TestTimer ==
    /\ pc \in Suspended
    /\ timers > 0
    /\ timers' = timers - 1
    /\ compl' = [compl EXCEPT ![waiting.comp] = "TEST"]
    /\ UNCHANGED << cfgVars, actVars, argVars, waiting, trsync, reasons, stop_reason, pc,
                    endstop_hit, result, reported, trace, changed, callNo, callbacks >>

\* The callback of line 254 runs: self.activate_extruder(from_command=False).
RestoreCallback ==
    /\ pc \in Suspended
    /\ callbacks > 0
    /\ callbacks' = callbacks - 1
    /\ SetActuators(activate_extruder(ActState, ""))
    /\ path' = popped(path, get_objects(EXTRUDER, 0, Len(path)))
    /\ UNCHANGED << envVars, endVars, argVars, pc, endstop_hit, result, reported, trace,
                    changed, callNo, timers >>

Next ==
    \/ load_to
    \/ cmd_KMMS_PRELOAD
    \/ Moving
    \/ ActivateDrive
    \/ Flush1
    \/ Start
    \/ StartTrsync
    \/ GetPos1
    \/ Flush2
    \/ Dwell
    \/ Drip
    \/ Dripping
    \/ Wait
    \/ Deadline
    \/ GetPos2
    \/ Stop
    \/ Stopped
    \/ Flush3
    \/ Restore
    \/ Return
    \/ FilamentInsert
    \/ TestTimer
    \/ RestoreCallback

Spec == Init /\ [][Next]_vars

\* The reactor runs a resumable waiter, fires a due timer and reaches every deadline.
SpecLive == Spec /\ WF_vars(Wait) /\ WF_vars(TestTimer) /\ WF_vars(Deadline)


\* ------------------------------------------------ stop() explored on its own
\* The call is about to execute endstop.stop() after a move on PathA, with
\* 1..MaxMcu trsyncs and every value the arm's completion can hold by then.
InitStop ==
    /\ path = PathA
    /\ nMcu \in 1..MaxMcu
    /\ reading = [n \in SensorsOf(PathA) |-> "absent"]
    /\ extruder = "drive"
    /\ motion_queue = [e \in ExtruderNames |-> "none"]
    /\ trapq = [e \in ExtruderNames |-> IF e = "drive" THEN "drive" ELSE "none"]
    /\ \E v \in {"unresolved", "None", "toolhead", "TEST"} :
          /\ compl = << "None", v >>
          /\ timers = IF v = "TEST" THEN 0 ELSE 1
          /\ endstop_hit = IF v = "unresolved" THEN "None" ELSE v
    /\ waiting = [comp |-> 2, names |-> {"toolhead"}]
    /\ trsync = TRUE
    /\ pc = "stop"
    /\ stop_pos = 3
    /\ from_command \in BOOLEAN
    /\ drive = "drive"
    /\ endstop_names = {"toolhead"}
    /\ result = "none"
    /\ reported = FALSE
    /\ trace = << "moving", "activate", "flush", "start", "getpos", "flush", "dwell",
                  "timer", "drip", "drip_end", "wait", "getpos" >>
    /\ changed = TRUE
    /\ callNo = 1
    /\ callbacks = 0
    /\ reasons = << >>
    /\ stop_reason = 0
    /\ warned = FALSE
    /\ path_names = NamesOf(path)
    /\ query = << >>
    /\ answer = << >>
    /\ step_generators = ExtruderNames
    /\ expired = FALSE
    /\ spool = NewSpool
    /\ helper = NewHelper

NextStop ==
    \/ Stop
    \/ Stopped

SpecStop == InitStop /\ [][NextStop]_vars

\* ------------------------------- the actuators driven by direct calls
\* The leader names a caller may pass to sync_to_extruder: the valid ones, the
\* empty name (desync) and a name that is no extruder.
LeaderArgs == ValidExtruders \cup {"", "bogus"}

\* ACTIVATE_EXTRUDER EXTRUDER=e: KmmsExtruder.activate on e.  trace holds the call
\* and what it did, result the error it raised.
cmd_ACTIVATE_EXTRUDER(e) ==
    LET st == activate(ActState, e) IN
    /\ pc = "idle"
    /\ SetActuators(st)
    /\ trace' = << "activate", e >> \o st.did
    /\ result' = st.error
    /\ UNCHANGED << cfgVars, endVars, argVars, pc, endstop_hit, reported, changed, callNo,
                    callbacks, timers >>

\* KmmsExtruder.sync_to_extruder(extruder_name) called on actuator e.
SyncToExtruder(e, extruder_name) ==
    LET st == sync_to_extruder(ActState, e, extruder_name) IN
    /\ pc = "idle"
    /\ SetActuators(st)
    /\ trace' = << "sync_to_extruder", e, extruder_name >> \o st.did
    /\ result' = st.error
    /\ UNCHANGED << cfgVars, endVars, argVars, pc, endstop_hit, reported, changed, callNo,
                    callbacks, timers >>

ActivateAny == \E e \in ExtruderNames : cmd_ACTIVATE_EXTRUDER(e)

SyncAny == \E e \in ExtruderNames, extruder_name \in LeaderArgs : SyncToExtruder(e, extruder_name)

NextExtruder ==
    \/ ActivateAny
    \/ SyncAny

SpecExtruder == Init /\ [][NextExtruder]_vars

\* ------------------------------------------------- the path's pure queries
\* A path with three sensors, for the queries.
PathG == << KmmsPathItem("entry", "switch"), KmmsPathItem("drive", "extruder"),
            KmmsPathItem("bp", "backpressure"), KmmsPathItem("toolhead", "switch") >>
QueryPaths == Paths \cup {PathG}

\* Every flag set and every mask over the five capability bits.
MaxFlags == 31
FlagSets == 0..MaxFlags

\* The state before any query or registration: nothing runs, nothing is armed.
QuiescentKmms ==
    /\ nMcu = NumMcu
    /\ extruder = "extruder"
    /\ motion_queue = [e \in ExtruderNames |-> "none"]
    /\ trapq = [e \in ExtruderNames |-> "none"]
    /\ compl = << "unresolved" >>
    /\ waiting = [comp |-> 1, names |-> {}]
    /\ trsync = FALSE
    /\ pc = "idle"
    /\ stop_pos = 0
    /\ from_command = FALSE
    /\ drive = "none"
    /\ endstop_names = {}
    /\ endstop_hit = "none"
    /\ result = "none"
    /\ reported = FALSE
    /\ trace = << >>
    /\ changed = FALSE
    /\ callNo = 0
    /\ callbacks = 0
    /\ timers = 0
    /\ reasons = << >>
    /\ stop_reason = 0
    /\ warned = FALSE
    /\ query = << >>
    /\ answer = << >>
    /\ step_generators = ExtruderNames
    /\ expired = FALSE

Quiescent ==
    /\ QuiescentKmms
    /\ spool = NewSpool
    /\ helper = NewHelper

InitPath ==
    /\ path \in QueryPaths
    /\ reading = [n \in SensorsOf(path) |-> "absent"]
    /\ path_names = NamesOf(path)
    /\ Quiescent

\* A query is asked of the path as configured, and leaves everything but its
\* record alone.
Asks(q, a) ==
    /\ query = << >>
    /\ query' = q
    /\ answer' = a
    /\ UNCHANGED << path, nMcu, reading, warned, path_names, expired, spool, helper, actVars, endVars, argVars,
                    pc, endstop_hit, result, reported, trace, changed, callNo,
                    callbacks, timers >>

\* item.has_flag(mask) on an item whose flags are flags.
HasFlag(flags, mask) ==
    Asks(<< "has_flag", flags, mask >>,
         has_flag([name |-> "item", kind |-> "none", flags |-> flags], mask))

\* path.find_path_position(eventtime) while the sensors read rd.
FindPosition(rd) == Asks(<< "find_path_position", rd >>, find_path_position(rd))

\* path.find_path_last(mask, start, stop).
FindLast(mask, start, stop) ==
    Asks(<< "find_path_last", mask, start, stop >>, find_path_last(mask, start, stop))

HasFlagAny == \E flags \in FlagSets, mask \in FlagSets : HasFlag(flags, mask)

FindPositionAny == \E rd \in [SensorsOf(path) -> Readings] : FindPosition(rd)

FindLastAny ==
    \E mask \in FlagSets, start \in 0..Len(path), stop \in 0..Len(path) :
        FindLast(mask, start, stop)

NextPath ==
    \/ HasFlagAny
    \/ FindPositionAny
    \/ FindLastAny

SpecPath == InitPath /\ [][NextPath]_vars

\* ------------------------------------------------- the path's registration
\* The objects the printer can hand to add_object: four devices, another
\* KmmsPath, and a feeder that exposes two items of its own through
\* get_path_items, the second of them the toolhead sensor.
Objects ==
    {[name |-> "entry", kind |-> "switch"],
     [name |-> "drive", kind |-> "extruder"],
     [name |-> "bp", kind |-> "backpressure"],
     [name |-> "toolhead", kind |-> "switch"],
     [name |-> "kmms_path spool_1", kind |-> "path"],
     [name |-> "feeder", kind |-> "subpath"]}

\* obj.get_path_items(): the items the object already holds.
get_path_items(obj) ==
    IF obj.name = "feeder"
    THEN << KmmsPathItem("gate", "switch"), KmmsPathItem("toolhead", "switch") >>
    ELSE << >>

\* The path under construction: its _items, its _names, the error raised.
PathState == [items |-> path, names |-> path_names, error |-> "none"]

\* An _append that does not look the name up.
append_unchecked(st, item) ==
    IF st.error # "none" THEN st
    ELSE [items |-> Append(st.items, item), names |-> st.names \cup {item.name},
          error |-> "none"]

\* KmmsPath._append(item); a statement after a raised error does not run.
append(st, item) ==
    IF st.error # "none" THEN st
    ELSE IF item.name \in st.names THEN [st EXCEPT !.error = "ConfigError"]
    ELSE [items |-> Append(st.items, item), names |-> st.names \cup {item.name},
          error |-> "none"]

\* An add_object that does not go through the object's own items.
AppendAll_skipped(st, nested, i) == st

\* for nested in obj.get_path_items(): self._append(nested)
RECURSIVE AppendAll(_, _, _)
AppendAll(st, nested, i) ==
    IF i > Len(nested) THEN st ELSE AppendAll(append(st, nested[i]), nested, i + 1)

\* KmmsPath.add_object(obj): KmmsPathItem(obj) reads obj.get_status and
\* obj.get_name, then the item is appended, then the items of a PATH object.
add_object(st, obj) ==
    IF ~({"get_status", "get_name"} \subseteq Attrs(obj.kind))
    THEN [st EXCEPT !.error = "AttributeError"]
    ELSE LET item == KmmsPathItem(obj.name, obj.kind)
             s1 == append(st, item)
         IN  IF has_flag(item, PATH) THEN AppendAll(s1, get_path_items(obj), 1) ELSE s1

\* KmmsPath.lookup_object(name): the printer raises its config error for a
\* name it does not know.
lookup_object(st, name) ==
    IF \E o \in Objects : o.name = name
    THEN add_object(st, CHOOSE o \in Objects : o.name = name)
    ELSE [st EXCEPT !.error = "ConfigError"]

InitBuild ==
    /\ path = << >>
    /\ reading = << >>
    /\ path_names = {PathName}
    /\ Quiescent

\* The path state st written back, with the record of the call.
Registers(q, st) ==
    /\ path' = st.items
    /\ path_names' = st.names
    /\ query' = q
    /\ answer' = st.error
    /\ UNCHANGED << nMcu, reading, warned, expired, spool, helper, actVars, endVars, argVars, pc, endstop_hit,
                    result, reported, trace, changed, callNo, callbacks, timers >>

AddObject(obj) == Registers(<< "add_object", obj.name >>, add_object(PathState, obj))

LookupObject(name) == Registers(<< "lookup_object", name >>, lookup_object(PathState, name))

AddAny == \E obj \in Objects : AddObject(obj)

LookupAny == \E name \in {o.name : o \in Objects} \cup {"missing"} : LookupObject(name)

NextBuild ==
    \/ AddAny
    \/ LookupAny

SpecBuild == InitBuild /\ [][NextBuild]_vars

\* ---------------------------------------------------------------- KmmsSpool
\* The motor powers of the configuration, in units of the smallest of them.
LoadPower == 2
UnloadPower == 2
ReleasePulsePower == 1
\* Operations (load_spool / unload_spool calls) explored.
MaxOps == 2

\* A set_pin that records the value without commanding the pins.
spool_set_pin_silent(s, value, cycle_time, is_resend) == [s EXCEPT !.last_value = value]

\* KmmsSpool.set_pin(print_time, value, cycle_time, is_resend).
spool_set_pin(s, value, cycle_time, is_resend) ==
    IF value = s.last_value /\ cycle_time = s.last_cycle_time /\ ~is_resend THEN s
    ELSE LET s1 == IF value >= 0
                   THEN [s EXCEPT !.status = IF value > 0 THEN "Loading" ELSE "Idle",
                                  !.unload_pin = 0, !.load_pin = value]
                   ELSE [s EXCEPT !.status = "Unloading",
                                  !.load_pin = 0, !.unload_pin = -value]
         IN  [s1 EXCEPT !.last_value = value, !.last_cycle_time = cycle_time,
                        !.resend_timer = TRUE]

\* KmmsSpool._resolve_state(result).
spool_resolve_state(s, res) ==
    IF s.trigger_completion # 0 /\ s.completions[s.trigger_completion] = "unresolved"
    THEN [s EXCEPT !.completions[s.trigger_completion] = res, !.trigger_completion = 0]
    ELSE s

\* A _reset_state that forgets the timer without unregistering it.
spool_reset_state_leaky(s) ==
    LET s1 == [s EXCEPT !.timeout_timer = 0]
        s2 == spool_resolve_state(s1, "None")
    IN  spool_set_pin([s2 EXCEPT !.last_start = FALSE], 0, "default", FALSE)

\* KmmsSpool._reset_state().
spool_reset_state(s) ==
    LET s1 == IF s.timeout_timer # 0
              THEN [s EXCEPT !.timers = @ \ {s.timeout_timer},
                             !.armed = @ \ {s.timeout_timer}, !.timeout_timer = 0]
              ELSE s
        s2 == spool_resolve_state(s1, "None")
    IN  spool_set_pin([s2 EXCEPT !.last_start = FALSE], 0, "default", FALSE)

\* load_spool (power > 0) and unload_spool (power < 0) up to the wait; detected
\* is status['filament_detected'].  The wait that may follow changes nothing.
spool_operation(s, power, detected) ==
    LET s1 == spool_reset_state(s)
        id == Len(s1.completions) + 1
        s2 == [s1 EXCEPT !.completions = Append(@, "unresolved"), !.trigger_completion = id]
    IN  IF ~detected THEN spool_resolve_state(s2, "None")
        ELSE LET s3 == spool_set_pin([s2 EXCEPT !.last_start = TRUE], power, "default", FALSE)
             IN  [s3 EXCEPT !.timeout_timer = id, !.timers = @ \cup {id},
                            !.armed = @ \cup {id}]

\* A stop() that returns at once when the motor is off.
spool_stop_begin_idle(s) ==
    IF s.last_value = 0 THEN s
    ELSE [spool_set_pin(s, 0, "default", FALSE)
            EXCEPT !.at = IF s.last_value < 0 THEN "settle_unloaded" ELSE "settle"]

\* stop() from its entry to its first dwell (or to its return when the motor is off).
spool_stop_begin(s) ==
    IF s.last_value = 0 THEN spool_reset_state(s)
    ELSE [spool_set_pin(s, 0, "default", FALSE)
            EXCEPT !.at = IF s.last_value < 0 THEN "settle_unloaded" ELSE "settle"]

\* stop() from one dwell to the next.
spool_stop_step(s) ==
    CASE s.at = "settle_unloaded" ->
            [spool_set_pin(s, LoadPower, "default", FALSE) EXCEPT !.at = "forward"]
      [] s.at = "forward" -> [spool_set_pin(s, 0, "default", FALSE) EXCEPT !.at = "settle"]
      [] s.at = "settle" ->
            [spool_set_pin(s, -ReleasePulsePower, "default", FALSE) EXCEPT !.at = "release"]
      [] OTHER ->
            LET s1 == spool_set_pin(s, 0, "default", FALSE)
            IN  [spool_resolve_state(s1, IF s.last_start THEN "duration" ELSE "None")
                    EXCEPT !.at = "none"]

InitSpool ==
    /\ path = PathA
    /\ reading = [n \in SensorsOf(PathA) |-> "absent"]
    /\ path_names = NamesOf(PathA)
    /\ Quiescent

\* A step of the spool leaves everything else alone.
SpoolBecomes(s) ==
    /\ spool' = s
    /\ UNCHANGED << path, nMcu, reading, warned, path_names, query, answer, expired, helper,
                    actVars, endVars, argVars, pc, endstop_hit, result, reported, trace,
                    changed, callNo, callbacks, timers >>

\* SET_PIN: the lookahead callback runs set_pin(print_time, value, cycle_time).
SpoolSetPin(value, cycle_time) == SpoolBecomes(spool_set_pin(spool, value, cycle_time, FALSE))

\* KMMS_SPOOL_LOAD / KMMS_SPOOL_UNLOAD: the lookahead callback runs the operation.
SpoolLoad(detected) ==
    /\ Len(spool.completions) < MaxOps
    /\ SpoolBecomes(spool_operation(spool, LoadPower, detected))

SpoolUnload(detected) ==
    /\ Len(spool.completions) < MaxOps
    /\ SpoolBecomes(spool_operation(spool, -UnloadPower, detected))

\* kmms_spool:runout for the spool called name: _handle_runout registers a
\* lookahead callback that calls stop().  KMMS_SPOOL_STOP does the same.
SpoolRunout(name) ==
    /\ spool.stops = 0
    /\ SpoolBecomes(IF name = "spool" THEN [spool EXCEPT !.stops = @ + 1] ELSE spool)

SpoolCmdStop ==
    /\ spool.stops = 0
    /\ SpoolBecomes([spool EXCEPT !.stops = @ + 1])

\* The timeout timer id fires: _handle_timeout reports the timeout, sends
\* kmms_spool:timeout, registers the stop() callback and returns NEVER.
SpoolTimeout(id) ==
    /\ id \in spool.armed
    /\ SpoolBecomes([spool EXCEPT !.armed = @ \ {id}, !.stops = @ + 1])

\* The toolhead runs a lookahead callback that calls stop(), one at a time.
SpoolStopBegin ==
    /\ spool.stops > 0
    /\ spool.at = "none"
    /\ SpoolBecomes(spool_stop_begin([spool EXCEPT !.stops = @ - 1]))

\* A dwell of the running stop() returns.
SpoolStopStep ==
    /\ spool.at # "none"
    /\ SpoolBecomes(spool_stop_step(spool))

\* The resend timer fires, _resend_current_val: the timer ends itself when the
\* motor is off; otherwise it re-sends the current value when the time has come.
SpoolResend(due) ==
    /\ spool.resend_timer
    /\ SpoolBecomes(IF spool.last_value = 0 THEN [spool EXCEPT !.resend_timer = FALSE]
                    ELSE IF ~due THEN spool
                    ELSE spool_set_pin(spool, spool.last_value, spool.last_cycle_time, TRUE))

NextSpool ==
    \/ \E value \in (-UnloadPower)..LoadPower, cycle_time \in {"default", "other"} :
          SpoolSetPin(value, cycle_time)
    \/ \E detected \in BOOLEAN : SpoolLoad(detected)
    \/ \E detected \in BOOLEAN : SpoolUnload(detected)
    \/ \E name \in {"spool", "other"} : SpoolRunout(name)
    \/ SpoolCmdStop
    \/ \E id \in 1..MaxOps : SpoolTimeout(id)
    \/ SpoolStopBegin
    \/ SpoolStopStep
    \/ \E due \in BOOLEAN : SpoolResend(due)

SpecSpool == InitSpool /\ [][NextSpool]_vars

\* Registered timers fire and lookahead callbacks run; a dwell returns.
SpecSpoolLive ==
    /\ SpecSpool
    /\ WF_vars(\E id \in 1..MaxOps : SpoolTimeout(id))
    /\ WF_vars(SpoolStopBegin)
    /\ WF_vars(SpoolStopStep)

\* ----------------------------------------------------- KmmsRunoutHelper
\* Cap on the handlers registered and not yet finished.
MaxHandlers == 2

Handlers(h) == Len(h.scheduled) + Len(h.running)

\* A variant of helper_schedule that leaves min_event_systime alone.
helper_schedule_open(h, kind) ==
    [h EXCEPT !.scheduled = Append(@, kind), !.last_note = kind]

\* note_filament_present, an event detected: events are shut off and the
\* handler is registered with the reactor.
helper_schedule(h, kind) ==
    [h EXCEPT !.min_event_systime = "NEVER",
              !.scheduled = Append(@, kind), !.last_note = kind]

\* note_filament_present(is_filament_present), is_printing being what
\* idle_timeout reports.
note_filament_present(h, is_filament_present, is_printing) ==
    LET r == [h EXCEPT !.last_reported = is_filament_present] IN
    IF is_filament_present = h.filament_present THEN [r EXCEPT !.last_note = "duplicate"]
    ELSE LET f == [r EXCEPT !.filament_present = is_filament_present] IN
         IF f.min_event_systime # "passed" \/ ~f.sensor_enabled THEN [f EXCEPT !.last_note = "ignored"]
         ELSE IF is_filament_present
              THEN IF f.run_always \/ ~is_printing THEN helper_schedule(f, "insert")
                   ELSE [f EXCEPT !.last_note = "no_event"]
              ELSE IF f.run_always \/ is_printing THEN helper_schedule(f, "runout")
                   ELSE [f EXCEPT !.last_note = "no_event"]

InitHelper ==
    /\ path = PathA
    /\ reading = [n \in SensorsOf(PathA) |-> "absent"]
    /\ path_names = NamesOf(PathA)
    /\ spool = NewSpool
    /\ \E run_always \in BOOLEAN, runout_pause \in BOOLEAN :
         helper = [NewHelper EXCEPT !.run_always = run_always, !.runout_pause = runout_pause]
    /\ QuiescentKmms

\* A step of the helper leaves everything else alone.
HelperBecomes(h) ==
    /\ helper' = h
    /\ UNCHANGED << path, nMcu, reading, warned, path_names, query, answer, expired, spool,
                    actVars, endVars, argVars, pc, endstop_hit, result, reported, trace,
                    changed, callNo, callbacks, timers >>

\* klippy:ready, once.
HelperReady ==
    /\ ~helper.ready
    /\ HelperBecomes([helper EXCEPT !.min_event_systime = "later", !.ready = TRUE])

\* Time goes by: min_event_systime is reached.
HelperTimePasses ==
    /\ helper.min_event_systime = "later"
    /\ HelperBecomes([helper EXCEPT !.min_event_systime = "passed"])

\* The sensor reports is_filament_present.
HelperNote(is_filament_present, is_printing) ==
    /\ Handlers(helper) < MaxHandlers
    /\ HelperBecomes(note_filament_present(helper, is_filament_present, is_printing))

\* cmd_SET_FILAMENT_SENSOR and cmd_SET_PAUSE_ON_RUNOUT.
HelperSetEnabled(enable) == HelperBecomes([helper EXCEPT !.sensor_enabled = enable])

HelperSetPause(enable) == HelperBecomes([helper EXCEPT !.runout_pause = enable])

\* The reactor starts the first registered handler: _runout_event_handler
\* sends the pause command, sets pause_prefix and pauses the greenlet if
\* runout_pause is set; otherwise the handler is in _exec_gcode.
HelperHandlerStart ==
    /\ helper.scheduled # << >>
    /\ LET kind == Head(helper.scheduled)
           pausing == kind = "runout" /\ helper.runout_pause
       IN HelperBecomes(
            [helper EXCEPT !.scheduled = Tail(@),
                           !.running = Append(@, [kind |-> kind,
                                                  pause_prefix |-> IF pausing THEN "PAUSE" ELSE "",
                                                  at |-> IF pausing THEN "pause" ELSE "script"])])

\* reactor.pause returns in handler i: it goes on to _exec_gcode.
HelperHandlerResume(i) ==
    /\ i \in DOMAIN helper.running
    /\ helper.running[i].at = "pause"
    /\ HelperBecomes([helper EXCEPT !.running[i].at = "script"])

\* _exec_gcode of handler i ends, the script having raised or not: the
\* exception is logged and min_event_systime is set event_delay ahead.
HelperHandlerEnd(i, raised) ==
    /\ i \in DOMAIN helper.running
    /\ helper.running[i].at = "script"
    /\ HelperBecomes(
         [helper EXCEPT !.running = SubSeq(@, 1, i - 1) \o SubSeq(@, i + 1, Len(@)),
                        !.min_event_systime = "later",
                        !.finished = IF raised THEN "raised" ELSE "ok"])

NextHelper ==
    \/ HelperReady
    \/ HelperTimePasses
    \/ \E v \in BOOLEAN, is_printing \in BOOLEAN : HelperNote(v, is_printing)
    \/ \E enable \in BOOLEAN : HelperSetEnabled(enable)
    \/ \E enable \in BOOLEAN : HelperSetPause(enable)
    \/ HelperHandlerStart
    \/ \E i \in 1..MaxHandlers : HelperHandlerResume(i)
    \/ \E i \in 1..MaxHandlers, raised \in BOOLEAN : HelperHandlerEnd(i, raised)

SpecHelper == InitHelper /\ [][NextHelper]_vars

\* ------------------------------------------------------------ properties
InTrace(tag) == \E i \in DOMAIN trace : trace[i] = tag

\* The path's terminal actuator: its last EXTRUDER item ("none" without one).
TerminalExtruder ==
    LET objs == get_objects(EXTRUDER, 0, Len(path))
    IN  IF objs = << >> THEN "none" ELSE objs[Len(objs)].name

\* The actuators before the terminal one.
FollowerExtruders ==
    LET objs == get_objects(EXTRUDER, 0, Len(path))
    IN  {objs[k].name : k \in 1..(Len(objs) - 1)}

\* The default actuator train: the terminal actuator owns the queue and every
\* other actuator of the path follows it.
DefaultTrain ==
    /\ extruder = TerminalExtruder
    /\ \A e \in FollowerExtruders :
          motion_queue[e] = TerminalExtruder /\ trapq[e] = TerminalExtruder

\* C1: whenever _load_to has left its execution phase (it got as far as activating
\* the driving actuator), by return or by an exception at any step, the restoration
\* of the default train was requested for the call: executed by line 250, or
\* registered as a reactor callback by the except clause.
C1_RestorationRequested ==
    (pc = "done" /\ InTrace("activate"))
        => (InTrace("restore_inline") \/ (InTrace("defer") /\ callbacks > 0))

\* C1 witness: a call that got as far as the wait and ended there with an
\* exception has its restoration registered.
C1_Witness ==
    /\ pc = "done"
    /\ result = "CommandError"
    /\ InTrace("wait")
    /\ ~InTrace("restore_inline")
    /\ callbacks > 0

\* C2: once a call that changed the active queue owner has ended and the reactor
\* has run every pending callback, the terminal actuator owns the queue and every
\* other actuator of the path follows it.
C2_TrainRestored ==
    (pc = "idle" /\ callbacks = 0 /\ changed) => DefaultTrain

\* C3: a call that fails with a KmmsError is reported at the command boundary and
\* has a restoration of the default train scheduled.
C3_KmmsErrorRestores ==
    (pc = "done" /\ result = "KmmsError" /\ from_command)
        => (reported /\ InTrace("defer") /\ callbacks > 0)

C5_StopAlwaysRuns ==
    (pc = "done" /\ InTrace("start")) => InTrace("stop")


\* What _load_to itself may leave in the arm's completion.
ArmValues == {"unresolved", "None"} \cup waiting.names

\* C6: arming resolves the previous arm's completion, with None if it was still
\* unresolved, before any trsync is started, and at no time is more than one
\* completion created by an arm unresolved (only the current one can be).
C6_ArmResolvesPrevious ==
    /\ [](\A i \in DOMAIN compl : i # waiting.comp => compl[i] # "unresolved")
    /\ [][(pc = "start" /\ pc' = "start_trsync") =>
             /\ waiting'.comp = Len(compl) + 1
             /\ compl'[waiting'.comp] = "unresolved"
             /\ compl'[waiting.comp] =
                   (IF compl[waiting.comp] = "unresolved" THEN "None"
                    ELSE compl[waiting.comp])
             /\ trsync' = trsync]_vars
    /\ [][(trsync' /\ pc = "start_trsync") =>
             \A i \in DOMAIN compl : i # waiting.comp => compl[i] # "unresolved"]_vars

\* C6 witness: the second arm, made while the first one - whose call failed
\* before its move and was never stopped - was still unresolved.
C6_Witness ==
    /\ pc = "start_trsync"
    /\ waiting.comp = 3
    /\ compl[2] = "None"
    /\ compl[3] = "unresolved"
    /\ timers = 0
    /\ trsync

\* C7: the current arm's completion is unresolved, None, or one of the armed names.
C7_OnlyArmedNames == compl[waiting.comp] \in ArmValues

\* C8: a notification resolves the current arm's completion with its name exactly
\* when the name is in the armed set and the completion is unresolved; any other
\* notification leaves every completion as it was.
C8_FirstWriterWins ==
    [][\A n \in NotifyNames :
          HandleInsert(n) =>
              IF n \in waiting.names /\ compl[waiting.comp] = "unresolved"
              THEN /\ compl'[waiting.comp] = n
                   /\ \A i \in DOMAIN compl : i # waiting.comp => compl'[i] = compl[i]
                   /\ DOMAIN compl' = DOMAIN compl
              ELSE compl' = compl]_vars

\* C8 witness: during the move the arm listens for two names and one of them has
\* resolved it; the notification of the other one is still to come.
C8_Witness ==
    /\ pc = "wait"
    /\ Cardinality(waiting.names) = 2
    /\ compl[waiting.comp] \in waiting.names

\* C9: when stop() returns the arm's completion is resolved: with None if it was
\* unresolved when stop() began, and with the value it had otherwise.
C9_StopResolves ==
    /\ [](pc = "stopped" => compl[waiting.comp] # "unresolved")
    /\ [][(pc = "stop" /\ pc' = "stopped") =>
             /\ compl'[waiting.comp] =
                   (IF compl[waiting.comp] = "unresolved" THEN "None"
                    ELSE compl[waiting.comp])
             /\ waiting' = waiting]_vars

\* C9 witness: stop() has returned and the arm keeps the name that resolved it.
C9_Witness ==
    /\ pc = "stopped"
    /\ compl[waiting.comp] \in waiting.names

\* The reasons the trsyncs returned, as a set.
ReasonSet == {reasons[i] : i \in DOMAIN reasons}

\* C10: the reason stop() returns is comms-timeout if any trsync reported it,
\* else endstop-hit if any reported it, else the largest reason reported - for
\* every number of trsyncs from 1 up and in whatever order they reported.
C10_StopReason ==
    pc = "stopped" =>
        /\ Len(reasons) = nMcu
        /\ nMcu >= 1
        /\ stop_reason =
              (IF REASON_COMMS_TIMEOUT \in ReasonSet THEN REASON_COMMS_TIMEOUT
               ELSE IF REASON_ENDSTOP_HIT \in ReasonSet THEN REASON_ENDSTOP_HIT
               ELSE CHOOSE m \in ReasonSet : \A r \in ReasonSet : r <= m)
        /\ \A p \in Permutations(1..nMcu) :
              stop_result([i \in 1..nMcu |-> reasons[p[i]]]) = stop_reason

\* C10 witness: MaxMcu trsyncs, an endstop hit reported before a comms timeout,
\* and a third reason among them.
C10_Witness ==
    /\ pc = "stopped"
    /\ nMcu = MaxMcu
    /\ reasons[1] = REASON_ENDSTOP_HIT
    /\ reasons[nMcu] = REASON_COMMS_TIMEOUT
    /\ REASON_PAST_END_TIME \in ReasonSet
    /\ stop_reason = REASON_COMMS_TIMEOUT


\* The actuators the toolhead holds as its extruder.
ActiveOwners == {e \in ValidExtruders : extruder = e}

\* C11: after any sequence of activate and sync_to_extruder calls exactly one
\* actuator is the active queue owner, and an active actuator follows nothing:
\* its motion_queue is none and its stepper is bound to its own queue.
C11_OneOwnerFollowsNothing ==
    /\ Cardinality(ActiveOwners) = 1
    /\ \A e \in ExtruderNames :
          extruder = e => (motion_queue[e] = "none" /\ trapq[e] = e)

\* C11 witness: drive2 was made the owner while drive follows it, and a sync of
\* drive2 to drive has just been attempted.
C11_Witness ==
    /\ extruder = "drive2"
    /\ motion_queue["drive"] = "drive2"
    /\ trapq["drive"] = "drive2"
    /\ Len(trace) >= 3
    /\ SubSeq(trace, 1, 3) = << "sync_to_extruder", "drive2", "drive" >>

\* C12: sync_to_extruder on the active actuator, with any leader name or the empty
\* name, raises a command error and leaves every actuator's queue binding and
\* recorded leader, and the active owner, as they were.
C12_SyncActiveRejected ==
    [][\A e \in ExtruderNames, n \in LeaderArgs :
          (SyncToExtruder(e, n) /\ extruder = e) =>
              /\ result' = "CommandError"
              /\ extruder' = extruder
              /\ motion_queue' = motion_queue
              /\ trapq' = trapq
              /\ ~(\E i \in DOMAIN trace' : trace'[i] = "configure")]_vars

\* C12 witness: a desync of the active actuator drive was rejected.
C12_Witness ==
    /\ extruder = "drive"
    /\ trace = << "sync_to_extruder", "drive", "", "flush" >>
    /\ result = "CommandError"
    /\ trapq["drive"] = "drive"

\* C13: activate on the actuator that is already active does nothing - no flush,
\* no reconfiguration, no extruder:activate_extruder event - so after any
\* activation a second activation of the same actuator changes nothing.
C13_ActivateIdempotent ==
    [][\A e \in ExtruderNames :
          cmd_ACTIVATE_EXTRUDER(e) =>
              /\ extruder = e =>
                    /\ trace' = << "activate", e >>
                    /\ result' = "none"
                    /\ extruder' = extruder
                    /\ motion_queue' = motion_queue
                    /\ trapq' = trapq
              /\ extruder' = e
              /\ activate(ActState', e) = ActState']_vars

\* C13 witness: drive, already active and followed by drive2, was activated again.
C13_Witness ==
    /\ extruder = "drive"
    /\ trace = << "activate", "drive" >>
    /\ motion_queue["drive2"] = "drive"

\* The EXTRUDER items of the path before the call's stop_pos, in path order.
TrainExtruders == get_objects(EXTRUDER, 0, stop_pos)

\* C14: when the first call has activated the driving actuator for a path with two
\* or more actuators before stop_pos (and the activation was not cut short by the
\* command itself failing), the activation has completed without error, the
\* driving actuator is the owner and every other actuator before stop_pos
\* follows it.
C14_TrainBuilt ==
    (/\ callNo = 1
     /\ Len(trace) >= 2
     /\ trace[2] = "activate"
     /\ ~InTrace("restore_inline")
     /\ result # "CommandError"
     /\ Len(TrainExtruders) >= 2)
        => /\ result # "AttributeError"
           /\ extruder = drive
           /\ \A k \in 1..Len(TrainExtruders) :
                 TrainExtruders[k].name # drive =>
                     /\ motion_queue[TrainExtruders[k].name] = drive
                     /\ trapq[TrainExtruders[k].name] = drive

\* The stop positions and sensor readings a call can be entered with.
StopArgs == (-1)..Len(path)
ReadingArgs == [SensorsOf(path) -> Readings]

\* The 0-based positions below bound (and on the path) of the items with flag.
PositionsBelow(flag, bound) ==
    {i \in 0..(Len(path) - 1) : i < bound /\ has_flag(path[i + 1], flag)}

\* The largest element of a non-empty set of positions, -1 for the empty set.
LastOf(S) == IF S = {} THEN -1 ELSE CHOOSE i \in S : \A j \in S : j <= i

\* The call has touched no hardware: actuators, dispatcher, callbacks and timers.
NoHardwareAction ==
    /\ UNCHANGED << extruder, motion_queue, trapq, step_generators >>
    /\ UNCHANGED << compl, waiting, trsync >>
    /\ UNCHANGED << callbacks, timers >>

\* C15: whenever find_path_position gives pos >= stop_pos the call returns False
\* and touches no hardware, from its entry to its return - so repeated calls in
\* that state issue no move and leave dispatcher and actuators as they were.
C15_SatisfiedIsNoOp ==
    /\ [][\A sp \in StopArgs, rd \in ReadingArgs, via \in BOOLEAN :
             (Enter(sp, rd, via) /\ Len(path) >= 1 /\ find_path_position(rd) >= sp) =>
                 /\ result' = "False"
                 /\ pc' = "done"
                 /\ trace' = << "satisfied" >>
                 /\ NoHardwareAction]_vars
    /\ [][(pc = "done" /\ trace = << "satisfied" >>) => (pc' = "idle" /\ NoHardwareAction)]_vars

\* C15 witness: the second of two calls found satisfied, with the dispatcher never
\* armed and no actuator ever activated.
C15_Witness ==
    /\ pc = "done"
    /\ callNo = 2
    /\ result = "False"
    /\ trace = << "satisfied" >>
    /\ compl = << "unresolved" >>
    /\ extruder = "extruder"
    /\ stop_pos >= 1

\* C16: the primary endstop of a call that moves is the SENSOR item with the
\* highest position <= stop_pos (it is among the armed names), and the call fails
\* for want of a sensor only if no SENSOR item has a position <= stop_pos.
C16_PrimaryEndstopInclusive ==
    LET upto == PositionsBelow(SENSOR, stop_pos + 1) IN
    /\ pc = "moving" => (upto # {} /\ path[LastOf(upto) + 1].name \in endstop_names)
    /\ (pc = "done" /\ trace = << "no_sensor" >>) => upto = {}

\* C17: in scenario A - path [entry, drive, toolhead], entry present, toolhead
\* absent, _load_to(2) - the call goes on to move with drive, armed against
\* exactly {"toolhead"}.
C17_ScenarioA ==
    (/\ path = PathA
     /\ stop_pos = 2
     /\ pc \in {"moving", "done"}
     /\ Len(trace) = 1
     /\ reading = [n \in {"entry", "toolhead"} |->
                      IF n = "entry" THEN "present" ELSE "absent"])
        => (pc = "moving" /\ drive = "drive" /\ endstop_names = {"toolhead"})

\* C18: when find_path_position gives -1 and a SENSOR item lies before the driving
\* actuator (the last EXTRUDER item before stop_pos), the call fails with the
\* KmmsError for an empty path and touches no hardware.
C18_EmptyPathFails ==
    [][\A sp \in StopArgs, rd \in ReadingArgs, via \in BOOLEAN :
          (/\ Enter(sp, rd, via)
           /\ Len(path) >= 1
           /\ sp >= 0
           /\ find_path_position(rd) = -1
           /\ PositionsBelow(SENSOR, LastOf(PositionsBelow(EXTRUDER, sp))) # {}) =>
              /\ result' = "KmmsError"
              /\ trace' = << "empty" >>
              /\ pc' = "done"
              /\ reported' = via
              /\ NoHardwareAction]_vars

\* C18 witness: scenario B - [entry, drive, toolhead], entry absent, _load_to(2).
C18_Witness ==
    /\ path = PathA
    /\ stop_pos = 2
    /\ pc = "done"
    /\ reading["entry"] = "absent"
    /\ result = "KmmsError"
    /\ trace = << "empty" >>
    /\ compl = << "unresolved" >>

\* C19: a call that gets as far as reading its primary endstop returns True at
\* once, touching no hardware, exactly when that sensor reads present; a sensor
\* that is disabled (reading None) or reads absent lets the call go on to move.
C19_ShortCircuit ==
    /\ [][\A sp \in StopArgs, rd \in ReadingArgs, via \in BOOLEAN :
             (Enter(sp, rd, via) /\ trace' \in {<< "already" >>, << "moving" >>}) =>
                 IF rd[find_path_last(SENSOR, sp, 0).item.name] = "present"
                 THEN /\ result' = "True"
                      /\ pc' = "done"
                      /\ trace' = << "already" >>
                      /\ NoHardwareAction
                 ELSE /\ pc' = "moving"
                      /\ trace' = << "moving" >>]_vars
    /\ [][(pc = "done" /\ trace = << "already" >>) => (pc' = "idle" /\ NoHardwareAction)]_vars

\* C19 witness: scenario C - the toolhead sensor reads present and the first call
\* has returned True with the dispatcher never armed and no actuator activated.
C19_Witness ==
    /\ path = PathA
    /\ stop_pos = 3
    /\ pc = "done"
    /\ reading["toolhead"] = "present"
    /\ result = "True"
    /\ trace = << "already" >>
    /\ compl = << "unresolved" >>
    /\ extruder = "extruder"

\* C20: a call that finds no EXTRUDER item before stop_pos fails with a
\* configuration error.
C20_NoExtruderIsConfigError ==
    (pc = "done" /\ trace = << "no_extruder" >>) => result = "ConfigError"

\* The position of the driving actuator of the call: the last EXTRUDER item
\* before stop_pos; and of its primary endstop as the code selects it: the last
\* SENSOR item before stop_pos.
DrivePosition(sp) == LastOf(PositionsBelow(EXTRUDER, sp))
PrimaryPosition(sp) == LastOf(PositionsBelow(SENSOR, sp))

\* C21: when no sensor confirms occupancy and no SENSOR item lies before the
\* driving actuator, the call does not fail as empty: it warns and goes on to the
\* endstop selection, and to the move if an endstop exists and does not read present.
C21_NoSensorBeforeDriveWarns ==
    [][\A sp \in StopArgs, rd \in ReadingArgs, via \in BOOLEAN :
          (/\ Enter(sp, rd, via)
           /\ Len(path) >= 1
           /\ sp >= 0
           /\ find_path_position(rd) = -1
           /\ DrivePosition(sp) >= 0
           /\ PositionsBelow(SENSOR, DrivePosition(sp)) = {}) =>
              /\ warned'
              /\ trace' # << "empty" >>
              /\ IF PrimaryPosition(sp) < 0
                 THEN trace' = << "no_sensor" >> /\ result' = "KmmsError"
                 ELSE IF rd[path[PrimaryPosition(sp) + 1].name] = "present"
                 THEN trace' = << "already" >> /\ result' = "True"
                 ELSE trace' = << "moving" >> /\ pc' = "moving"]_vars

\* C21 witness: on [drive, bp, toolhead, drive2] with nothing detected the call
\* to position 3 has warned and goes on to the move with drive.
C21_Witness ==
    /\ path = PathB
    /\ stop_pos = 3
    /\ pc = "moving"
    /\ warned
    /\ reading["bp"] = "absent"
    /\ drive = "drive"

\* C22: the names the call arms are the primary endstop's and those of the
\* BACKPRESSURE items after the driving actuator and before stop_pos, no other.
C22_ArmedNames ==
    InTrace("start") =>
        waiting.names =
            {path[PrimaryPosition(stop_pos) + 1].name}
                \cup {path[i + 1].name :
                        i \in {j \in PositionsBelow(BACKPRESSURE, stop_pos) :
                                  j > DrivePosition(stop_pos)}}

\* C22 witness: the call to position 3 of [drive, bp, toolhead, drive2] has armed
\* the toolhead sensor and the backpressure sensor.
C22_Witness ==
    /\ path = PathB
    /\ stop_pos = 3
    /\ pc = "start_trsync"
    /\ waiting.names = {"toolhead", "bp"}

\* The position in the trace of the first tag equal to tag (0 if there is none).
FirstAt(tag) ==
    IF InTrace(tag) THEN CHOOSE i \in DOMAIN trace :
                            trace[i] = tag /\ \A j \in 1..(i - 1) : trace[j] # tag
    ELSE 0

\* C23: while a drip move is under way the dispatcher is armed - trsyncs started,
\* not stopped - with a non-empty set of names that holds the primary endstop,
\* and the driving actuator was activated before the arm, the arm before the move.
C23_MoveHasStoppingCondition ==
    (InTrace("drip") /\ pc \in {"dripping", "wait"}) =>
        /\ trsync
        /\ waiting.names # {}
        /\ waiting.names = endstop_names
        /\ path[PrimaryPosition(stop_pos) + 1].name \in waiting.names
        /\ 0 < FirstAt("activate")
        /\ FirstAt("activate") < FirstAt("start")
        /\ FirstAt("start") < FirstAt("drip")
        /\ ~InTrace("stop")

\* C23 witness: the drip move of a call armed against two names is under way.
C23_Witness ==
    /\ pc = "dripping"
    /\ trsync
    /\ waiting.names = {"toolhead", "bp"}
    /\ ~test(waiting.comp)

\* C24: the position read that follows the wait comes after stop() and after the
\* flush that follows stop().
C24_FinalReadAfterStop ==
    \A i \in DOMAIN trace :
        (trace[i] = "getpos" /\ 0 < FirstAt("wait") /\ FirstAt("wait") < i) =>
            \E j, k \in DOMAIN trace :
                /\ FirstAt("wait") < j /\ j < k /\ k < i
                /\ trace[j] = "stop"
                /\ trace[k] = "flush"

\* C25: at the end of a call made by KMMS_PRELOAD a KmmsError has been caught and
\* reported as text, and any other error has not: it leaves the command.
C25_CommandBoundary ==
    (pc = "done" /\ from_command) =>
        /\ result = "KmmsError" => reported
        /\ result \in {"CommandError", "ConfigError", "TypeError", "AttributeError"}
              => ~reported
        /\ result \in {"True", "False"} => ~reported

\* C25 witness: a command error raised by the wait of a KMMS_PRELOAD call has
\* left the command unreported.
C25_Witness ==
    /\ pc = "done"
    /\ from_command
    /\ result = "CommandError"
    /\ ~reported
    /\ InTrace("wait")

\* The query last made is op.
Asked(op) == query # << >> /\ query[1] = op

\* Bit b (a power of two) of x.
Bit(x, b) == (x \div b) % 2
Bits == {1, 2, 4, 8, 16}
Covers(flags, mask) == \A b \in Bits : Bit(mask, b) = 1 => Bit(flags, b) = 1

\* C26: has_flag(mask) is true exactly when every bit of mask is set in the
\* item's flags; an item with SENSOR alone does not match BACKPRESSURE, and an
\* item that matches BACKPRESSURE matches SENSOR.
C26_HasFlagIsSupersetTest ==
    Asked("has_flag") =>
        LET item == [name |-> "item", kind |-> "none", flags |-> query[2]] IN
        /\ answer = Covers(query[2], query[3])
        /\ (query[2] = SENSOR /\ query[3] = BACKPRESSURE) => ~answer
        /\ (query[3] = BACKPRESSURE /\ answer) => has_flag(item, SENSOR)
        /\ (answer /\ query[3] # 0) =>
              \A b \in Bits : Bit(query[3], b) = 1 => has_flag(item, b)

\* C26 witness: an item with SENSOR alone was asked for BACKPRESSURE and does
\* not match.
C26_Witness ==
    /\ Asked("has_flag")
    /\ query[2] = SENSOR
    /\ query[3] = BACKPRESSURE
    /\ answer = FALSE

\* The 0-based positions of the path's items carrying every bit of mask.
Carrying(mask) == {i \in 0..(Len(path) - 1) : Covers(path[i + 1].flags, mask)}

\* The position the readings rd put the filament at: the last sensor reading
\* present before the first sensor reading absent.
ExpectedPosition(rd) ==
    LET absent == {i \in Carrying(SENSOR) : rd[path[i + 1].name] = "absent"}
        first == IF absent = {} THEN Len(path)
                 ELSE CHOOSE i \in absent : \A j \in absent : i <= j
        run == {i \in Carrying(SENSOR) : rd[path[i + 1].name] = "present" /\ i < first}
    IN  IF run = {} THEN -1 ELSE CHOOSE i \in run : \A j \in run : j <= i

\* C27: find_path_position returns the last SENSOR item reading true before
\* the first SENSOR item reading false, -1 if there is none; other items and
\* disabled sensors are skipped and never returned.
C27_FindPathPosition ==
    Asked("find_path_position") =>
        /\ answer = ExpectedPosition(query[2])
        /\ answer >= 0 =>
              /\ answer \in Carrying(SENSOR)
              /\ query[2][path[answer + 1].name] = "present"

\* C27 witness: on [entry, drive, bp, toolhead] with entry disabled, bp present
\* and toolhead absent the position is 2.
C27_Witness ==
    /\ Asked("find_path_position")
    /\ path = PathG
    /\ query[2]["entry"] = "disabled"
    /\ query[2]["bp"] = "present"
    /\ query[2]["toolhead"] = "absent"
    /\ answer = 2

\* C28: for 0 <= stop <= start <= len, find_path_last(mask, start, stop) returns
\* the highest position in [stop, start) carrying every bit of mask, with its
\* item, or (-1, none); a call with start < stop raises an error.
C28_FindPathLast ==
    Asked("find_path_last") =>
        LET mask == query[2]
            start == query[3]
            stop == query[4]
            hits == {i \in Carrying(mask) : stop <= i /\ i < start}
        IN  IF start < stop THEN answer.error = "ValueError"
            ELSE /\ answer.error = "none"
                 /\ IF hits = {} THEN answer.pos = -1 /\ answer.item = NoItem
                    ELSE /\ answer.pos \in hits
                         /\ \A j \in hits : j <= answer.pos
                         /\ answer.item = path[answer.pos + 1]

\* C28 witness: on [drive, bp, toolhead, drive2] the last SENSOR item in [1, 3)
\* is the toolhead sensor at position 2.
C28_Witness ==
    /\ Asked("find_path_last")
    /\ path = PathB
    /\ query[2] = SENSOR /\ query[3] = 3 /\ query[4] = 1
    /\ answer.pos = 2
    /\ answer.item.name = "toolhead"

\* C29: after any sequence of add_object and lookup_object calls, failed ones
\* included, the items' names are pairwise distinct, none is the path's own
\* name, and _names holds the path's name and exactly the items' names.
C29_NamesUnique ==
    /\ \A i, j \in DOMAIN path : path[i].name = path[j].name => i = j
    /\ \A i \in DOMAIN path : path[i].name # PathName
    /\ path_names = NamesOf(path)
    /\ Cardinality(path_names) = Len(path) + 1

\* C29 witness: a path that holds the items of a flattened object, after a call
\* that failed on a name already present.
C29_Witness ==
    /\ \E i \in DOMAIN path : has_flag(path[i], PATH) /\ i < Len(path)
    /\ \E i \in DOMAIN path : path[i].name = "gate"
    /\ answer = "ConfigError"
    /\ Len(path) >= 4

C31_AddExtendsInOrder ==
    [][\A obj \in Objects :
          (AddObject(obj) /\ answer' = "none") =>
              LET item == KmmsPathItem(obj.name, obj.kind)
                  nested == IF Covers(item.flags, PATH) THEN get_path_items(obj) ELSE << >>
              IN  /\ path' = path \o << item >> \o nested
                  /\ Covers(item.flags, PATH) \/ Len(path') = Len(path) + 1]_vars

\* C31 witness: the feeder was added after the entry sensor, with its two items.
C31_Witness ==
    /\ Asked("add_object")
    /\ query[2] = "feeder"
    /\ answer = "none"
    /\ Len(path) = 4
    /\ path[1].name = "entry" /\ path[2].name = "feeder"
    /\ path[3].name = "gate" /\ path[4].name = "toolhead"

C33_WaitResumes ==
    /\ [][(pc = "wait" /\ pc' # "wait") =>
            /\ test(waiting.comp) \/ expired
            /\ pc' = "getpos2" =>
                  endstop_hit' = IF compl[waiting.comp] # "unresolved"
                                 THEN compl[waiting.comp] ELSE "None"]_vars
    /\ (pc = "wait") ~> (pc # "wait")

\* C33 witness: the wait has returned the name a notification wrote.
C33_Witness ==
    /\ pc = "getpos2"
    /\ endstop_hit = "toolhead"

\* C34 (as stated): a completion that holds a value is never written again.
C34_SingleAssignment ==
    [][\A i \in DOMAIN compl :
          (i \in DOMAIN compl' /\ compl[i] # "unresolved") => compl'[i] = compl[i]]_vars

\* C35 (as stated): a desync of an actuator that is not the active one succeeds
\* and leaves it bound to no queue with no leader.
C35_DesyncAlwaysSucceeds ==
    [][\A e \in ExtruderNames :
          (SyncToExtruder(e, "") /\ extruder # e) =>
              /\ result' = "none"
              /\ trapq'[e] = "none"
              /\ motion_queue'[e] = "none"]_vars

\* C36: the commanded pin outputs and the status follow last_value - load pin
\* max(last_value, 0), unload pin max(-last_value, 0), status by its sign - so
\* the two pins are never both commanded non-zero.
C36_PinsFollowLastValue ==
    /\ spool.load_pin = (IF spool.last_value > 0 THEN spool.last_value ELSE 0)
    /\ spool.unload_pin = (IF spool.last_value < 0 THEN -spool.last_value ELSE 0)
    /\ spool.status = (IF spool.last_value > 0 THEN "Loading"
                       ELSE IF spool.last_value < 0 THEN "Unloading" ELSE "Idle")
    /\ ~(spool.load_pin # 0 /\ spool.unload_pin # 0)

\* C36 witness: a stop() that began while the spool was loading is in its
\* release pulse: the unload pin is commanded, the load pin is not.
C36_Witness ==
    /\ spool.at = "release"
    /\ spool.last_value = -ReleasePulsePower
    /\ spool.unload_pin = ReleasePulsePower
    /\ spool.load_pin = 0
    /\ spool.status = "Unloading"

\* C37: at most one timeout timer is registered and at most one operation
\* completion is unresolved; an operation unregisters the previous timer and
\* resolves the previous completion with None before it creates its own, and
\* without filament its completion is resolved with None at once, motor off.
C37_OneOperationAtATime ==
    /\ [](Cardinality(spool.timers) <= 1 /\
          Cardinality({i \in DOMAIN spool.completions :
                          spool.completions[i] = "unresolved"}) <= 1)
    /\ [][Len(spool'.completions) = Len(spool.completions) + 1 =>
            LET id == Len(spool'.completions) IN
            /\ spool'.timers \subseteq {id}
            /\ \A i \in DOMAIN spool.completions :
                  spool'.completions[i] =
                      IF spool.completions[i] = "unresolved" THEN "None"
                      ELSE spool.completions[i]
            /\ spool'.completions[id] = "unresolved" =>
                  spool'.timers = {id} /\ spool'.last_value # 0
            /\ spool'.completions[id] # "unresolved" =>
                  /\ spool'.completions[id] = "None"
                  /\ spool'.timers = {}
                  /\ spool'.last_value = 0]_vars

\* C37 witness: a second operation began while the first was in progress; the
\* first was resolved with None and only the second's timer is registered.
C37_Witness ==
    /\ spool.completions = << "None", "unresolved" >>
    /\ spool.timers = {2}
    /\ spool.timeout_timer = 2

\* C38: every operation's completion is eventually resolved, and while one is
\* unresolved the motor is eventually commanded to 0.
C38_OperationsEnd ==
    /\ \A i \in 1..MaxOps :
          (i \in DOMAIN spool.completions /\ spool.completions[i] = "unresolved")
             ~> (i \in DOMAIN spool.completions /\ spool.completions[i] # "unresolved")
    /\ (\E i \in DOMAIN spool.completions : spool.completions[i] = "unresolved")
          ~> (spool.last_value = 0 /\ spool.load_pin = 0 /\ spool.unload_pin = 0)

\* C38 witness: an operation ended by stop() was resolved with its duration,
\* the motor off.
C38_Witness ==
    /\ \E i \in DOMAIN spool.completions : spool.completions[i] = "duration"
    /\ spool.last_value = 0
    /\ spool.at = "none"

\* C39 (as stated): a timeout is reported only for an operation still in
\* progress; one whose completion stop() has resolved reports none.
C39_TimeoutOnlyInProgress ==
    [][\A id \in 1..MaxOps :
          SpoolTimeout(id) => spool.completions[id] = "unresolved"]_vars

\* C40: KmmsRunoutHelper has at most one insert or runout handler registered
\* or running at any time, and while there is one min_event_systime is NEVER;
\* filament_present is always the value reported last; a change of presence
\* reported before klippy:ready and the initial delay, while a handler is
\* pending or running, during the event delay or while the sensor is disabled
\* registers no handler; a handler that ends, its script having raised or
\* not, sets min_event_systime one event delay ahead, and once that time has
\* passed a change reported to the enabled sensor registers its handler
\* again (insert when run_always or not printing, runout when run_always or
\* printing).
C40_OneHandlerAtATime ==
    /\ [](/\ Handlers(helper) <= 1
          /\ Handlers(helper) = 1 => helper.min_event_systime = "NEVER"
          /\ helper.filament_present = helper.last_reported)
    /\ [][/\ \A v \in BOOLEAN, is_printing \in BOOLEAN :
               HelperNote(v, is_printing) =>
                   LET blocked == \/ ~helper.ready
                                  \/ Handlers(helper) > 0
                                  \/ helper.min_event_systime # "passed"
                                  \/ ~helper.sensor_enabled
                       change == v # helper.filament_present
                       wanted == IF v THEN helper.run_always \/ ~is_printing
                                 ELSE helper.run_always \/ is_printing
                   IN /\ (blocked \/ ~change) => helper'.scheduled = helper.scheduled
                      /\ (~blocked /\ change /\ wanted) =>
                             helper'.scheduled = << IF v THEN "insert" ELSE "runout" >>
          /\ \A i \in 1..MaxHandlers, raised \in BOOLEAN :
               HelperHandlerEnd(i, raised) =>
                   /\ helper'.min_event_systime = "later"
                   /\ Handlers(helper') = 0]_vars

\* A handler ended with its script raising an exception, the event delay
\* passed, and the next runout was accepted: its handler is registered.
C40_Witness ==
    /\ helper.finished = "raised"
    /\ helper.scheduled = << "runout" >>
    /\ helper.running = << >>
    /\ ~helper.filament_present

====
